---- MODULE Spec2Model ----
(***************************************************************************)
(* Block-level state transition of lib/runBlock.js: one call of the        *)
(* exported function against a VM whose state manager wraps a trie and a   *)
(* write-back account cache.  Every action is one JavaScript callback run  *)
(* to completion: the synchronous chain of calls from one asynchronous     *)
(* event (a hook, the executor, a trie or account operation finishing) to  *)
(* the next points where the code waits.  Spec is one call; SpecTwoCalls   *)
(* is a call followed by a second one with the same options.               *)
(***************************************************************************)
EXTENDS Integers, Sequences, FiniteSets, TLC

VARIABLES
    pc,                \* where the invocation waits
    common,            \* self._common: the consensus parameters
    opts,              \* the options of the call
    block,             \* opts.block: transactions, uncleHeaders, fixed header fields
    header,            \* the header's commitment fields, as written or as read
    trie,              \* self.stateManager.trie: root and checkpoint stack
    cache,             \* self.stateManager.cache
    gasUsed,           \* line 34
    bloom,             \* line 31, its bitvector
    receiptTrie,       \* line 32
    receipts,          \* line 35
    txResults,         \* line 36
    validReceiptCount, \* line 66
    txIdx,             \* position of async.eachSeries in block.transactions
    credits,           \* the rewardAccount calls in flight (0: miner, j: ommer j)
    each,              \* async.each of rewardOmmers: completed count, callback called
    err,               \* err of the trie.commit callback (line 183)
    result,            \* line 37
    cbLog,             \* every invocation of the caller's cb
    hist               \* history: calls made on the collaborators

vars == <<pc, common, opts, block, header, trie, cache, gasUsed, bloom,
          receiptTrie, receipts, txResults, validReceiptCount, txIdx, credits,
          each, err, result, cbLog, hist>>

----------------------------------------------------------------------------
(* Bounds of the model *)

MaxTxs == 2

MaxOmmers == 2

----------------------------------------------------------------------------
(* Values *)

Addr == {"a1", "a2"}

TxTarget == "a1"

ZeroRoot == [a \in Addr |-> 0]

AltRoot == [a \in Addr |-> IF a = "a1" THEN 5 ELSE 0]

MinerRewards == {44}

BlockNumbers == {10}

OmmerNumbers == {9}

BlockGasLimits == {2}

TxGasLimits == {1, 3}

BloomBits == {1}

TxGasUsed == {1, 3}

NoErr == [set |-> FALSE, message |-> <<>>]

Err(msg) == [set |-> TRUE, message |-> msg]

\* String(err) of `(err || '') + fragment`: '' for null, "Error: <message>" else
ErrToString(e) == IF e.set THEN <<"Error: ">> \o e.message ELSE <<>>

NoOptsError == Err(<<"invalid input, opts must be provided">>)

NoBlockError == Err(<<"invalid input, block must be provided">>)

GasLimitError == Err(<<"tx has a higher gas limit than the block">>)

HookError == Err(<<"beforeBlock hook failed">>)

TxError == Err(<<"runTx failed">>)

LookupError == Err(<<"getAccount failed">>)

WriteError == Err(<<"putAccount failed">>)

CommitError == Err(<<"commit failed">>)

NullReceipt == [null |-> TRUE, status |-> 0, gasUsed |-> <<>>, bitvector |-> {}, logs |-> <<>>]

NoResult == [receipts |-> <<>>, results |-> <<>>, error |-> NoErr]

IdleCredit == [st |-> "idle", address |-> "a1", reward |-> 0, account |-> 0]

EmptyBlock == [transactions |-> <<>>, uncleHeaders |-> <<>>,
               header |-> [gasLimit |-> 0, number |-> 0, coinbase |-> "a1"]]

TxSeqs ==
    UNION {{[i \in 1..n |-> [id |-> i - 1, gasLimit |-> g[i]]] : g \in [1..n -> TxGasLimits]}
           : n \in 0..MaxTxs}

Ommers == [number : OmmerNumbers, coinbase : Addr]

OmmerSeqs == UNION {[1..n -> Ommers] : n \in 0..MaxOmmers}

Blocks ==
    [transactions : TxSeqs, uncleHeaders : OmmerSeqs,
     header : [gasLimit : BlockGasLimits, number : BlockNumbers, coinbase : Addr]]

Options ==
    [kind : {"noOpts", "noBlock"}, generate : {FALSE}, hasRoot : {FALSE},
     root : {ZeroRoot}, block : {EmptyBlock}]
    \cup [kind : {"noBlock"}, generate : {FALSE}, hasRoot : {TRUE}, root : {AltRoot},
          block : {EmptyBlock}]
    \cup [kind : {"block"}, generate : BOOLEAN, hasRoot : {FALSE}, root : {ZeroRoot},
          block : Blocks]
    \cup [kind : {"block"}, generate : BOOLEAN, hasRoot : {TRUE}, root : {AltRoot},
          block : Blocks]

----------------------------------------------------------------------------
(* Encodings *)

RECURSIVE ToArrayLike(_)
\* BN.toArrayLike(Buffer): big-endian bytes, one zero byte for 0
ToArrayLike(n) ==
    IF n < 256 THEN <<n>> ELSE ToArrayLike(n \div 256) \o <<n % 256>>

\* rlp.encode of a non-negative integer: 0 is the empty string (0x80), a single
\* byte below 0x80 is itself, anything else is length-prefixed
RlpEncodeInt(n) ==
    IF n = 0 THEN <<128>>
    ELSE IF n < 128 THEN <<n>>
    ELSE LET b == ToArrayLike(n) IN <<128 + Len(b)>> \o b

\* rlp.encode of the raw receipt tuple
RlpEncodeList(raw) == <<"rlp", raw>>

----------------------------------------------------------------------------
(* The state store: a trie under checkpoints with a write-back account     *)
(* cache in front of it.  An operation takes effect when it completes.     *)

NoEntry == [present |-> FALSE, val |-> 0, modified |-> FALSE]

EmptyCache == [a \in Addr |-> NoEntry]

\* trie.checkpoint()
Checkpoint(t) == [t EXCEPT !.checkpoints = Append(@, t.root)]

\* trie.commit(): drops the checkpoint, keeps what was written since
Commit(t) ==
    IF Len(t.checkpoints) = 0 THEN t
    ELSE [t EXCEPT !.checkpoints = SubSeq(@, 1, Len(@) - 1)]

\* trie.revert(): back to the root the checkpoint was taken on
Revert(t) ==
    IF Len(t.checkpoints) = 0 THEN t
    ELSE [root |-> t.checkpoints[Len(t.checkpoints)],
          checkpoints |-> SubSeq(t.checkpoints, 1, Len(t.checkpoints) - 1)]

\* the balance getAccount delivers: the cached entry, else the trie's
Lookup(c, t, a) == IF c[a].present THEN c[a].val ELSE t.root[a]

\* getAccount keeps what it read in the cache
CacheLoad(c, t, a) ==
    IF c[a].present THEN c
    ELSE [c EXCEPT ![a] = [present |-> TRUE, val |-> t.root[a], modified |-> FALSE]]

\* putAccount writes to the cache only
CachePut(c, a, v) == [c EXCEPT ![a] = [present |-> TRUE, val |-> v, modified |-> TRUE]]

\* cache.flush(): writes every modified entry back to the trie
FlushRoot(c, t) ==
    [a \in Addr |-> IF c[a].present /\ c[a].modified THEN c[a].val ELSE t.root[a]]

FlushCache(c) == [a \in Addr |-> [c[a] EXCEPT !.modified = FALSE]]

\* cache.clear()
ClearCache(c) == EmptyCache

\* the balances the store would deliver now
View(c, t) == [a \in Addr |-> Lookup(c, t, a)]

----------------------------------------------------------------------------
(* The receipt trie: insert-only, its root commits to its content *)

EmptyTrie == {}

TriePut(t, k, v) == {p \in t : p[1] # k} \cup {<<k, v>>}

TrieRoot(t) == t

----------------------------------------------------------------------------
(* The invocation, as operators on the state *)

State ==
    [pc |-> pc, common |-> common, opts |-> opts, block |-> block, header |-> header,
     trie |-> trie, cache |-> cache, gasUsed |-> gasUsed, bloom |-> bloom,
     receiptTrie |-> receiptTrie, receipts |-> receipts, txResults |-> txResults,
     validReceiptCount |-> validReceiptCount, txIdx |-> txIdx, credits |-> credits,
     each |-> each, err |-> err, result |-> result, cbLog |-> cbLog, hist |-> hist]

Apply(s) ==
    /\ pc' = s.pc
    /\ common' = s.common
    /\ opts' = s.opts
    /\ block' = s.block
    /\ header' = s.header
    /\ trie' = s.trie
    /\ cache' = s.cache
    /\ gasUsed' = s.gasUsed
    /\ bloom' = s.bloom
    /\ receiptTrie' = s.receiptTrie
    /\ receipts' = s.receipts
    /\ txResults' = s.txResults
    /\ validReceiptCount' = s.validReceiptCount
    /\ txIdx' = s.txIdx
    /\ credits' = s.credits
    /\ each' = s.each
    /\ err' = s.err
    /\ result' = s.result
    /\ cbLog' = s.cbLog
    /\ hist' = s.hist

\* the caller's cb(e) or cb(e, result)
Callback(s, e, hasResult, res) ==
    [s EXCEPT !.cbLog = Append(@, [err |-> e, hasResult |-> hasResult, result |-> res]),
              !.pc = "returned"]

\* parseBlockResults surfacing an error without the revert
ParseBlockResultsNoRevert(s, e) ==
    IF e.set
    THEN Callback(s, e, FALSE, NoResult)
    ELSE [s EXCEPT !.header.stateRoot = IF s.opts.generate THEN s.trie.root ELSE @,
                   !.pc = "commit"]

\* parseBlockResults up to the commit it starts (lines 171-183)
ParseBlockResults(s, e) ==
    IF e.set
    THEN Callback([s EXCEPT !.trie = Revert(s.trie), !.hist.revert = @ + 1],
                  e, FALSE, NoResult)
    ELSE [s EXCEPT !.header.stateRoot = IF s.opts.generate THEN s.trie.root ELSE @,
                   !.pc = "commit"]

\* rewardOmmers' reward (lines 139-145)
OmmerReward(minerReward, blockNumber, ommerNumber) ==
    LET heightDiff == blockNumber - ommerNumber
        reward == (8 - heightDiff) * (minerReward \div 8)
    IN IF reward < 0 THEN 0 ELSE reward

\* rewardMiner's reward (lines 153-156)
MinerReward(minerReward, nOmmers) ==
    LET niblingReward == minerReward \div 32
        totalNiblingReward == niblingReward * nOmmers
    IN minerReward + totalNiblingReward

\* rewardMiner: starts the miner's rewardAccount (lines 151-158, 161)
RewardMiner(s) ==
    [s EXCEPT !.credits[0] =
                  [st |-> "get", address |-> s.block.header.coinbase,
                   reward |-> MinerReward(s.common.minerReward, Len(s.block.uncleHeaders)),
                   account |-> 0],
              !.pc = "rewardMiner"]

\* payOmmersAndMiner starting the miner's credit together with the ommers'
PayOmmersAndMinerAtOnce(s) ==
    LET ommers == s.block.uncleHeaders
        t == [s EXCEPT
                !.credits = [j \in 0..Len(ommers) |->
                    IF j = 0 THEN IdleCredit
                    ELSE [st |-> "get", address |-> ommers[j].coinbase,
                          reward |-> OmmerReward(s.common.minerReward,
                                                 s.block.header.number, ommers[j].number),
                          account |-> 0]],
                !.each = [completed |-> 0, called |-> Len(ommers) # 0],
                !.hist.preReward = View(s.cache, s.trie),
                !.hist.rewards = TRUE,
                !.pc = "rewardOmmers"]
    IN RewardMiner(t)

\* payOmmersAndMiner and rewardOmmers: async.each starts one rewardAccount per
\* ommer; with no ommer its callback runs at once (lines 127-149, 161)
PayOmmersAndMiner(s) ==
    LET ommers == s.block.uncleHeaders
        t == [s EXCEPT
                !.credits = [j \in 0..Len(ommers) |->
                    IF j = 0 THEN IdleCredit
                    ELSE [st |-> "get", address |-> ommers[j].coinbase,
                          reward |-> OmmerReward(s.common.minerReward,
                                                 s.block.header.number, ommers[j].number),
                          account |-> 0]],
                !.each = [completed |-> 0, called |-> FALSE],
                !.hist.preReward = View(s.cache, s.trie),
                !.hist.rewards = TRUE,
                !.pc = "rewardOmmers"]
    IN IF Len(ommers) = 0 THEN RewardMiner(t) ELSE t

\* async.each handing every error to the final callback, not only the first
EachCallbackEveryError(s, e) ==
    IF e.set
    THEN ParseBlockResults([s EXCEPT !.each.called = TRUE], e)
    ELSE LET t == [s EXCEPT !.each.completed = @ + 1]
         IN IF t.each.completed = Len(s.block.uncleHeaders) /\ ~s.each.called
            THEN RewardMiner([t EXCEPT !.each.called = TRUE])
            ELSE t

\* the callback async.each hands to each iteration: the first error goes to the
\* final callback, which runs once; it runs without error when all have completed
EachCallback(s, e) ==
    IF e.set
    THEN IF s.each.called THEN s
         ELSE ParseBlockResults([s EXCEPT !.each.called = TRUE], e)
    ELSE LET t == [s EXCEPT !.each.completed = @ + 1]
         IN IF t.each.completed = Len(s.block.uncleHeaders) /\ ~s.each.called
            THEN RewardMiner([t EXCEPT !.each.called = TRUE])
            ELSE t

\* `done` of rewardAccount: the miner's ends both series (lines 131-134, 46-50)
CreditDone(s, j, e) ==
    IF j = 0 THEN ParseBlockResults(s, e) ELSE EachCallback(s, e)

\* the callback of getAccount in rewardAccount (lines 161-165)
GetAccountCallback(s, j, e) ==
    IF e.set
    THEN CreditDone([s EXCEPT !.credits[j].st = "failed"], j, e)
    ELSE [s EXCEPT !.credits[j].st = "put",
                   !.credits[j].account =
                       Lookup(s.cache, s.trie, s.credits[j].address) + s.credits[j].reward,
                   !.cache = CacheLoad(s.cache, s.trie, s.credits[j].address)]

\* putAccount completing and calling `done` (line 165)
PutAccountCallback(s, j, e) ==
    IF e.set
    THEN CreditDone([s EXCEPT !.credits[j].st = "failed"], j, e)
    ELSE CreditDone([s EXCEPT !.credits[j].st = "done",
                              !.cache = CachePut(s.cache, s.credits[j].address,
                                                 s.credits[j].account)], j, NoErr)

\* processTx comparing the block's limit with the transaction's limit alone
ProcessTxIgnoresGasUsed(s, i) ==
    LET tx == s.block.transactions[i]
        gasLimitIsHigherThanBlock == s.block.header.gasLimit < tx.gasLimit
    IN IF gasLimitIsHigherThanBlock
       THEN ParseBlockResults([s EXCEPT !.txIdx = i], GasLimitError)
       ELSE [s EXCEPT !.txIdx = i, !.hist.runTx = Append(@, tx.id), !.pc = "runTx"]

\* processTx: the admission check, then the executor (lines 70-81)
ProcessTx(s, i) ==
    LET tx == s.block.transactions[i]
        gasLimitIsHigherThanBlock == s.block.header.gasLimit < tx.gasLimit + s.gasUsed
    IN IF gasLimitIsHigherThanBlock
       THEN ParseBlockResults([s EXCEPT !.txIdx = i], GasLimitError)
       ELSE [s EXCEPT !.txIdx = i, !.hist.runTx = Append(@, tx.id), !.pc = "runTx"]

\* async.eachSeries from position i on (line 68); after the last transaction
\* async.series goes on to payOmmersAndMiner (lines 46-50)
EachSeries(s, i) ==
    IF i > Len(s.block.transactions) THEN PayOmmersAndMiner(s) ELSE ProcessTx(s, i)

\* processTransactions (lines 65-68)
ProcessTransactions(s) == EachSeries([s EXCEPT !.validReceiptCount = 0], 1)

\* what a successful run of the transaction executor leaves in the state store:
\* one more wei on the account the transactions pay, put through the cache and
\* flushed to the trie under the open checkpoint
RunTx(s) ==
    LET c == CachePut(s.cache, TxTarget, Lookup(s.cache, s.trie, TxTarget) + 1)
    IN [s EXCEPT !.trie.root = FlushRoot(c, s.trie), !.cache = FlushCache(c)]

\* parseTxResult leaving no receipt for the failed transaction
ParseTxResultNoNull(s, e, r) ==
    LET t == [s EXCEPT !.txResults = Append(@, r)]
    IN IF e.set
       THEN ParseBlockResults(t, e)
       ELSE LET g == s.gasUsed + r.gasUsed
                b == s.bloom \cup r.bloom
                txLogs == r.vm.logs
                rawTxReceipt == <<IF r.vm.exception # 0 THEN 1 ELSE 0, ToArrayLike(g),
                                  r.bloom, txLogs>>
                txReceipt == [null |-> FALSE, status |-> rawTxReceipt[1],
                              gasUsed |-> rawTxReceipt[2], bitvector |-> rawTxReceipt[3],
                              logs |-> rawTxReceipt[4]]
            IN [t EXCEPT !.gasUsed = g,
                         !.bloom = b,
                         !.header.bloom = IF s.opts.generate THEN b ELSE @,
                         !.receipts = Append(@, txReceipt),
                         !.pc = "receiptPut"]

\* parseTxResult with the status the other way round
ParseTxResultStatusFlipped(s, e, r) ==
    LET t == [s EXCEPT !.txResults = Append(@, r)]
    IN IF e.set
       THEN ParseBlockResults([t EXCEPT !.receipts = Append(@, NullReceipt)], e)
       ELSE LET g == s.gasUsed + r.gasUsed
                b == s.bloom \cup r.bloom
                txLogs == r.vm.logs
                rawTxReceipt == <<IF r.vm.exception # 0 THEN 0 ELSE 1, ToArrayLike(g),
                                  r.bloom, txLogs>>
                txReceipt == [null |-> FALSE, status |-> rawTxReceipt[1],
                              gasUsed |-> rawTxReceipt[2], bitvector |-> rawTxReceipt[3],
                              logs |-> rawTxReceipt[4]]
            IN [t EXCEPT !.gasUsed = g,
                         !.bloom = b,
                         !.header.bloom = IF s.opts.generate THEN b ELSE @,
                         !.receipts = Append(@, txReceipt),
                         !.pc = "receiptPut"]

\* parseTxResult putting the aggregate bloom into the receipt
ParseTxResultAggregateBloom(s, e, r) ==
    LET t == [s EXCEPT !.txResults = Append(@, r)]
    IN IF e.set
       THEN ParseBlockResults([t EXCEPT !.receipts = Append(@, NullReceipt)], e)
       ELSE LET g == s.gasUsed + r.gasUsed
                b == s.bloom \cup r.bloom
                txLogs == r.vm.logs
                rawTxReceipt == <<IF r.vm.exception # 0 THEN 1 ELSE 0, ToArrayLike(g),
                                  b, txLogs>>
                txReceipt == [null |-> FALSE, status |-> rawTxReceipt[1],
                              gasUsed |-> rawTxReceipt[2], bitvector |-> rawTxReceipt[3],
                              logs |-> rawTxReceipt[4]]
            IN [t EXCEPT !.gasUsed = g,
                         !.bloom = b,
                         !.header.bloom = IF s.opts.generate THEN b ELSE @,
                         !.receipts = Append(@, txReceipt),
                         !.pc = "receiptPut"]

\* parseTxResult going on to the next transaction after a failed one
ParseTxResultGoesOn(s, e, r) ==
    LET t == [s EXCEPT !.txResults = Append(@, r)]
    IN IF e.set
       THEN EachSeries([t EXCEPT !.receipts = Append(@, NullReceipt)], s.txIdx + 1)
       ELSE LET g == s.gasUsed + r.gasUsed
                b == s.bloom \cup r.bloom
                txLogs == r.vm.logs
                rawTxReceipt == <<IF r.vm.exception # 0 THEN 1 ELSE 0, ToArrayLike(g),
                                  r.bloom, txLogs>>
                txReceipt == [null |-> FALSE, status |-> rawTxReceipt[1],
                              gasUsed |-> rawTxReceipt[2], bitvector |-> rawTxReceipt[3],
                              logs |-> rawTxReceipt[4]]
            IN [t EXCEPT !.gasUsed = g,
                         !.bloom = b,
                         !.header.bloom = IF s.opts.generate THEN b ELSE @,
                         !.receipts = Append(@, txReceipt),
                         !.pc = "receiptPut"]

\* parseTxResult (lines 83-118), r the executor's result and e its error
ParseTxResult(s, e, r) ==
    LET t == [s EXCEPT !.txResults = Append(@, r)]
    IN IF e.set
       THEN ParseBlockResults([t EXCEPT !.receipts = Append(@, NullReceipt)], e)
       ELSE LET g == s.gasUsed + r.gasUsed
                b == s.bloom \cup r.bloom
                txLogs == r.vm.logs
                rawTxReceipt == <<IF r.vm.exception # 0 THEN 1 ELSE 0, ToArrayLike(g),
                                  r.bloom, txLogs>>
                txReceipt == [null |-> FALSE, status |-> rawTxReceipt[1],
                              gasUsed |-> rawTxReceipt[2], bitvector |-> rawTxReceipt[3],
                              logs |-> rawTxReceipt[4]]
            IN [t EXCEPT !.gasUsed = g,
                         !.bloom = b,
                         !.header.bloom = IF s.opts.generate THEN b ELSE @,
                         !.receipts = Append(@, txReceipt),
                         !.pc = "receiptPut"]

\* receiptTrie.put completing without the count of valid receipts going up
ReceiptPutCallbackSameKey(s) ==
    LET rc == s.receipts[Len(s.receipts)]
        rawTxReceipt == <<rc.status, rc.gasUsed, rc.bitvector, rc.logs>>
        t == [s EXCEPT !.receiptTrie = TriePut(@, RlpEncodeInt(s.validReceiptCount),
                                               RlpEncodeList(rawTxReceipt))]
    IN EachSeries(t, s.txIdx + 1)

\* receiptTrie.put completing (lines 118-121), then the next transaction
ReceiptPutCallback(s) ==
    LET rc == s.receipts[Len(s.receipts)]
        rawTxReceipt == <<rc.status, rc.gasUsed, rc.bitvector, rc.logs>>
        t == [s EXCEPT !.receiptTrie = TriePut(@, RlpEncodeInt(s.validReceiptCount),
                                               RlpEncodeList(rawTxReceipt)),
                       !.validReceiptCount = @ + 1]
    IN EachSeries(t, s.txIdx + 1)

\* the beforeBlock hook completing: async.series goes on or ends (lines 46-53)
BeforeBlockCallback(s, e) ==
    IF e.set THEN ParseBlockResults(s, e) ELSE ProcessTransactions(s)

\* the options object of the call, as the model keeps it
Opts(o) ==
    [given |-> o.kind # "noOpts", generate |-> o.generate, hasRoot |-> o.hasRoot,
     root |-> o.root, hasBlock |-> o.kind = "block"]

\* module.exports looking for the block only after the checkpoint is open
ProcessBlockChecksLate(s, o) ==
    LET s0 == [s EXCEPT !.hist.rootBefore = s.trie.root]
        t == IF o.hasRoot THEN [s.trie EXCEPT !.root = o.root] ELSE s.trie
    IN IF o.kind = "noOpts" THEN Callback(s0, NoOptsError, FALSE, NoResult)
       ELSE IF o.kind = "noBlock"
       THEN Callback([s0 EXCEPT !.opts = Opts(o), !.trie = Checkpoint(t),
                                !.hist.checkpoint = @ + 1],
                     NoBlockError, FALSE, NoResult)
       ELSE [s0 EXCEPT !.opts = Opts(o),
                       !.block = o.block,
                       !.gasUsed = 0,
                       !.bloom = {},
                       !.receiptTrie = EmptyTrie,
                       !.receipts = <<>>,
                       !.txResults = <<>>,
                       !.trie = Checkpoint(t),
                       !.hist.checkpoint = @ + 1,
                       !.hist.beforeBlock = @ + 1,
                       !.pc = "beforeBlock"]

\* module.exports up to the beforeBlock hook (lines 16-53)
ProcessBlock(s, o) ==
    LET s0 == [s EXCEPT !.hist.rootBefore = s.trie.root]
        t == IF o.hasRoot THEN [s.trie EXCEPT !.root = o.root] ELSE s.trie
    IN IF o.kind = "noOpts" THEN Callback(s0, NoOptsError, FALSE, NoResult)
       ELSE IF o.kind = "noBlock"
       THEN Callback([s0 EXCEPT !.opts = Opts(o)], NoBlockError, FALSE, NoResult)
       ELSE [s0 EXCEPT !.opts = Opts(o),
                       !.block = o.block,
                       !.gasUsed = 0,
                       !.bloom = {},
                       !.receiptTrie = EmptyTrie,
                       !.receipts = <<>>,
                       !.txResults = <<>>,
                       !.trie = Checkpoint(t),
                       !.hist.checkpoint = @ + 1,
                       !.hist.beforeBlock = @ + 1,
                       !.pc = "beforeBlock"]

\* the trie.commit callback: keeps err and starts cache.flush (lines 183-184)
CommitCallback(s, e) ==
    [s EXCEPT !.trie = Commit(s.trie), !.err = e, !.hist.commit = @ + 1,
              !.hist.commitErr = e, !.pc = "flush"]

\* the commitment checks stopping at the first mismatch
ValidateFirstOnly(s, h, t) ==
    IF TrieRoot(s.receiptTrie) # h.receiptTrie
    THEN Err(ErrToString(s.err) \o <<"invalid receiptTrie ">>)
    ELSE IF s.bloom # h.bloom
    THEN Err(ErrToString(s.err) \o <<"invalid bloom ">>)
    ELSE IF h.gasUsed # s.gasUsed
    THEN Err(ErrToString(s.err) \o <<"invalid gasUsed ">>)
    ELSE IF t.root # h.stateRoot
    THEN Err(ErrToString(s.err) \o <<"invalid block stateRoot ">>)
    ELSE s.err

\* the four commitment checks on the header h (lines 185-198); the root of a
\* Trie object is never null, so the receipt check is always made
Validate(s, h, t) ==
    LET e1 == IF TrieRoot(s.receiptTrie) # h.receiptTrie
              THEN Err(ErrToString(s.err) \o <<"invalid receiptTrie ">>) ELSE s.err
        e2 == IF s.bloom # h.bloom
              THEN Err(ErrToString(e1) \o <<"invalid bloom ">>) ELSE e1
        e3 == IF h.gasUsed # s.gasUsed
              THEN Err(ErrToString(e2) \o <<"invalid gasUsed ">>) ELSE e2
        e4 == IF t.root # h.stateRoot
              THEN Err(ErrToString(e3) \o <<"invalid block stateRoot ">>) ELSE e3
    IN e4

\* the cache.flush callback handing the result to the caller without the hook
FlushCallbackNoHook(s, h) ==
    LET t == [s.trie EXCEPT !.root = FlushRoot(s.cache, s.trie)]
        validateStateRoot == ~s.opts.generate
        e == IF validateStateRoot THEN Validate(s, h, t) ELSE s.err
        r == [receipts |-> s.receipts, results |-> s.txResults, error |-> e]
    IN Callback([s EXCEPT !.trie = t,
                          !.header = IF validateStateRoot THEN h ELSE @,
                          !.err = e,
                          !.cache = ClearCache(FlushCache(s.cache)),
                          !.result = r],
                e, TRUE, r)

\* the cache.flush callback (lines 184-208): the checks in validation mode on the
\* header fields h read there, cache.clear, the result, the afterBlock hook
FlushCallback(s, h) ==
    LET t == [s.trie EXCEPT !.root = FlushRoot(s.cache, s.trie)]
        validateStateRoot == ~s.opts.generate
        e == IF validateStateRoot THEN Validate(s, h, t) ELSE s.err
    IN [s EXCEPT !.trie = t,
                 !.header = IF validateStateRoot THEN h ELSE @,
                 !.err = e,
                 !.cache = ClearCache(FlushCache(s.cache)),
                 !.result = [receipts |-> s.receipts, results |-> s.txResults, error |-> e],
                 !.hist.afterBlock = Append(@, [receipts |-> s.receipts,
                                                results |-> s.txResults, error |-> e]),
                 !.pc = "afterBlock"]

\* the final callback getting the result only when there is no error
AfterBlockCallbackErrorOnly(s) ==
    IF s.err.set THEN Callback(s, s.err, FALSE, NoResult)
    ELSE Callback(s, s.err, TRUE, s.result)

\* the afterBlock hook completing: cb.bind(this, err, result) (line 208)
AfterBlockCallback(s) == Callback(s, s.err, TRUE, s.result)

----------------------------------------------------------------------------
(* What the collaborators can answer *)

\* the executor's answers for transaction tx: an error, or a result
TxResults(tx) ==
    [failed : {FALSE}, gasUsed : TxGasUsed, bloom : SUBSET BloomBits,
     vm : [exception : {0, 1}, logs : {<<tx.id>>}]]

\* the executor's result r reports that an exception occurred: vm.exception is
\* 0 when an exception occurs and 1 when it does not (line 105)
ExceptionOccurred(r) == r.vm.exception = 0

FailedTxResult == [failed |-> TRUE, gasUsed |-> 0, bloom |-> {},
                   vm |-> [exception |-> 0, logs |-> <<>>]]

\* the header commitments a block can declare, seen from the state the checks
\* run in: each field either the value this run arrives at or another one
DeclaredHeaders(s) ==
    LET root == FlushRoot(s.cache, s.trie)
    IN [receiptTrie : {TrieRoot(s.receiptTrie),
                       TrieRoot(TriePut(s.receiptTrie, <<0>>, RlpEncodeList(<<>>)))},
        bloom : SUBSET BloomBits,
        gasUsed : {s.gasUsed, s.gasUsed + 1},
        stateRoot : {root, [root EXCEPT ![TxTarget] = @ + 1]}]

BlankHeaderOf(root) ==
    [receiptTrie |-> EmptyTrie, bloom |-> {}, gasUsed |-> 0, stateRoot |-> root]

\* what is kept of an earlier call: nothing before there was one
NoFirst == [done |-> FALSE, delivered |-> FALSE, error |-> NoErr, root |-> ZeroRoot,
            view |-> ZeroRoot, results |-> <<>>, header |-> BlankHeaderOf(ZeroRoot)]

BlankHeader == BlankHeaderOf(ZeroRoot)

----------------------------------------------------------------------------
(* The state machine *)

Init ==
    /\ pc = "idle"
    /\ common \in [minerReward : MinerRewards]
    /\ opts = [given |-> FALSE, generate |-> FALSE, hasRoot |-> FALSE, root |-> ZeroRoot,
               hasBlock |-> FALSE]
    /\ block = EmptyBlock
    /\ header = BlankHeader
    /\ trie = [root |-> ZeroRoot, checkpoints |-> <<>>]
    /\ cache = EmptyCache
    /\ gasUsed = 0
    /\ bloom = {}
    /\ receiptTrie = EmptyTrie
    /\ receipts = <<>>
    /\ txResults = <<>>
    /\ validReceiptCount = 0
    /\ txIdx = 0
    /\ credits = [j \in {0} |-> IdleCredit]
    /\ each = [completed |-> 0, called |-> FALSE]
    /\ err = NoErr
    /\ result = NoResult
    /\ cbLog = <<>>
    /\ hist = [checkpoint |-> 0, commit |-> 0, revert |-> 0, runTx |-> <<>>,
               commitErr |-> NoErr, rewards |-> FALSE, preReward |-> ZeroRoot,
               rootBefore |-> ZeroRoot, beforeBlock |-> 0, afterBlock |-> <<>>,
               first |-> NoFirst]

\* the caller invokes the exported function
Call ==
    /\ pc = "idle"
    /\ \E o \in Options : Apply(ProcessBlock(State, o))

\* the beforeBlock hook completes, with or without an error
BeforeBlockDone ==
    /\ pc = "beforeBlock"
    /\ \E e \in {NoErr, HookError} : Apply(BeforeBlockCallback(State, e))

\* the executor completes the transaction it was given
RunTxDone ==
    /\ pc = "runTx"
    /\ \/ Apply(ParseTxResult(State, TxError, FailedTxResult))
       \/ \E r \in TxResults(block.transactions[txIdx]) :
              Apply(ParseTxResult(RunTx(State), NoErr, r))

\* the receipt trie has stored the receipt
ReceiptPutDone ==
    /\ pc = "receiptPut"
    /\ Apply(ReceiptPutCallback(State))

\* the state store answers a getAccount of a reward credit
GetAccountDone ==
    \E j \in DOMAIN credits :
        /\ credits[j].st = "get"
        /\ \E e \in {NoErr, LookupError} : Apply(GetAccountCallback(State, j, e))

\* the state store answers a putAccount of a reward credit
PutAccountDone ==
    \E j \in DOMAIN credits :
        /\ credits[j].st = "put"
        /\ \E e \in {NoErr, WriteError} : Apply(PutAccountCallback(State, j, e))

\* trie.commit completes
CommitDone ==
    /\ pc = "commit"
    /\ \E e \in {NoErr, CommitError} : Apply(CommitCallback(State, e))

\* cache.flush completes; the header's declared commitments are input of the
\* call that the code reads nowhere before lines 186-195, so they are drawn here
FlushDone ==
    /\ pc = "flush"
    /\ \E h \in DeclaredHeaders(State) : Apply(FlushCallback(State, h))

\* the afterBlock hook completes
AfterBlockDone ==
    /\ pc = "afterBlock"
    /\ Apply(AfterBlockCallback(State))

Next ==
    \/ Call
    \/ BeforeBlockDone
    \/ RunTxDone
    \/ ReceiptPutDone
    \/ GetAccountDone
    \/ PutAccountDone
    \/ CommitDone
    \/ FlushDone
    \/ AfterBlockDone

Spec == Init /\ [][Next]_vars

----------------------------------------------------------------------------
(* Two calls in a row with the same options: the second on a fresh copy of  *)
(* the store the first started from, or on the store the first has left     *)

TwoCallOptions ==
    {o \in Options : /\ o.kind = "block" /\ ~o.generate /\ ~o.hasRoot
                     /\ Len(o.block.transactions) <= 1}

\* no rewardAccount of the call is waiting for the state store
Settled == \A j \in DOMAIN credits : credits[j].st \notin {"get", "put"}

\* the state a second call starts in: the store as chosen, the history of the
\* first call put aside
Again(s, fresh) ==
    [s EXCEPT !.trie = IF fresh THEN [root |-> s.hist.rootBefore, checkpoints |-> <<>>]
                       ELSE @,
              !.cache = IF fresh THEN EmptyCache ELSE @,
              !.txIdx = 0,
              !.validReceiptCount = 0,
              !.credits = [j \in {0} |-> IdleCredit],
              !.each = [completed |-> 0, called |-> FALSE],
              !.err = NoErr,
              !.result = NoResult,
              !.cbLog = <<>>,
              !.hist = [checkpoint |-> 0, commit |-> 0, revert |-> 0, runTx |-> <<>>,
                        commitErr |-> NoErr, rewards |-> FALSE, preReward |-> ZeroRoot,
                        rootBefore |-> ZeroRoot, beforeBlock |-> 0, afterBlock |-> <<>>,
                        first |-> [done |-> TRUE,
                                   delivered |-> s.cbLog[1].hasResult,
                                   error |-> s.cbLog[1].err,
                                   root |-> s.trie.root,
                                   view |-> s.hist.rootBefore,
                                   results |-> s.txResults,
                                   header |-> s.header]]]

\* the caller invokes the exported function for the first time
CallFirst ==
    /\ pc = "idle"
    /\ \E o \in TwoCallOptions : Apply(ProcessBlock(State, o))

\* the caller invokes it again with the same options: after a block found
\* valid, on a fresh copy of the starting state; after a failed reward stage,
\* on the same store
CallAgain ==
    /\ pc = "returned" /\ ~hist.first.done
    /\ hist.rewards /\ Settled
    /\ cbLog[1].hasResult => ~result.error.set
    /\ Apply(ProcessBlock(Again(State, cbLog[1].hasResult),
                          [kind |-> "block", generate |-> opts.generate,
                           hasRoot |-> opts.hasRoot, root |-> opts.root, block |-> block]))

\* the executor completes a transaction of the second call as it did in the first
RunTxAgain ==
    /\ pc = "runTx" /\ hist.first.done
    /\ Apply(ParseTxResult(RunTx(State), NoErr, hist.first.results[txIdx]))

\* cache.flush completes in the second call: the block's header is the one the
\* first call read, if it came to read it
FlushAgain ==
    /\ pc = "flush" /\ hist.first.done
    /\ \E h \in (IF hist.first.delivered THEN {hist.first.header}
                  ELSE DeclaredHeaders(State)) :
           Apply(FlushCallback(State, h))

\* the executor and cache.flush completing in the first call
RunTxFirst == ~hist.first.done /\ RunTxDone

FlushFirst == ~hist.first.done /\ FlushDone

NextTwoCalls ==
    \/ CallFirst
    \/ RunTxFirst
    \/ FlushFirst
    \/ BeforeBlockDone
    \/ ReceiptPutDone
    \/ GetAccountDone
    \/ PutAccountDone
    \/ CommitDone
    \/ AfterBlockDone
    \/ CallAgain
    \/ RunTxAgain
    \/ FlushAgain

SpecTwoCalls == Init /\ [][NextTwoCalls]_vars

----------------------------------------------------------------------------
(* Properties *)

\* the caller's callback has been invoked
Called == Len(cbLog) > 0

\* the first invocation of the caller's callback
FirstCb == cbLog[1]

\* the errors that end a block before its commit
BlockFatalErrors == {HookError, GasLimitError, TxError, LookupError, WriteError}

BlockFatal == Called /\ FirstCb.err \in BlockFatalErrors

\* the call delivered a result object
Delivered == Called /\ FirstCb.hasResult

\* the root the checkpoint of this call was opened on
CheckpointRoot == IF opts.hasRoot THEN opts.root ELSE hist.rootBefore

FailedCredits == {j \in DOMAIN credits : credits[j].st = "failed"}

\* C1: a call that is given a block opens exactly one checkpoint and resolves
\* it exactly once, by a commit or by a revert and never by both, on every path
\* to the caller's callback; a call without a block opens and resolves none.
C1_CheckpointResolvedOnce ==
    /\ hist.checkpoint <= 1
    /\ hist.commit + hist.revert <= hist.checkpoint
    /\ Len(trie.checkpoints) = hist.checkpoint - (hist.commit + hist.revert)
    /\ (pc \notin {"idle", "returned"}) => hist.checkpoint = 1
    /\ (pc = "returned" /\ opts.hasBlock) =>
           hist.checkpoint = 1 /\ hist.commit + hist.revert = 1
    /\ (pc = "returned" /\ ~opts.hasBlock) =>
           hist.checkpoint = 0 /\ hist.commit = 0 /\ hist.revert = 0
    /\ Called => (BlockFatal <=> hist.revert = 1) /\ (Delivered <=> hist.commit = 1)

\* C1 witness: the call has returned after two ommer credits failed
C1_Witness ==
    /\ pc = "returned"
    /\ hist.revert = 1
    /\ Cardinality(FailedCredits) = 2

\* C2 as stated: after a block-fatal error the trie's root is the root from
\* before the call, whatever the options, the callback got the error and no
\* result.
C2_RootAsBeforeCall ==
    BlockFatal =>
        /\ trie.root = hist.rootBefore
        /\ Len(cbLog) = 1
        /\ ~FirstCb.hasResult

\* the step a block-fatal error comes from, read off what the call has done
Originates(e) ==
    \/ e = HookError /\ hist.runTx = <<>> /\ ~hist.rewards
    \/ /\ e = GasLimitError
       /\ txIdx > 0 /\ Len(txResults) = txIdx - 1 /\ ~hist.rewards
    \/ /\ e = TxError
       /\ txIdx > 0 /\ Len(txResults) = txIdx /\ txResults[txIdx].failed
    \/ e \in {LookupError, WriteError} /\ hist.rewards /\ FailedCredits # {}

\* C2 amended: after a block-fatal error the trie's root is the root the
\* checkpoint was opened on (the root override when one was supplied, else
\* the root from before the call), the callback was invoked once, with the
\* originating error and without a result.
C2_RootAsAtCheckpoint ==
    BlockFatal =>
        /\ trie.root = CheckpointRoot
        /\ Len(cbLog) = 1
        /\ ~FirstCb.hasResult
        /\ Originates(FirstCb.err)

\* C2 witness: a block-fatal error under a root override, after a transaction
\* had changed the trie
C2_Witness ==
    /\ BlockFatal
    /\ opts.hasRoot
    /\ opts.root # hist.rootBefore
    /\ Len(receipts) > 0 /\ ~receipts[1].null

RECURSIVE SumOmmerRewards(_, _, _)
\* the ommer rewards of the first n ommers that name address a
SumOmmerRewards(a, ommers, n) ==
    IF n = 0 THEN 0
    ELSE SumOmmerRewards(a, ommers, n - 1)
         + (IF ommers[n].coinbase = a
            THEN OmmerReward(common.minerReward, block.header.number, ommers[n].number)
            ELSE 0)

\* C3 as stated: after a block whose transactions all succeeded, every
\* address has grown, over the reward stage, by the rewards of the ommers
\* naming it plus the miner reward if it is the block's coinbase, whatever the
\* order of the account callbacks.
C3_AllCreditsApplied ==
    Delivered =>
        \A a \in Addr :
            trie.root[a] = hist.preReward[a]
                + SumOmmerRewards(a, block.uncleHeaders, Len(block.uncleHeaders))
                + (IF a = block.header.coinbase
                   THEN MinerReward(common.minerReward, Len(block.uncleHeaders))
                   ELSE 0)

\* C4 as stated: in generate mode a successful call leaves in the header's
\* state-root field the root the state store ends with.
C4_GeneratedStateRoot ==
    (Delivered /\ opts.generate) => header.stateRoot = trie.root

\* the commitment checks of a validating call have run
Validated == ~opts.generate /\ pc \in {"afterBlock", "returned"} /\ hist.commit = 1

ReceiptMismatch == TrieRoot(receiptTrie) # header.receiptTrie

BloomMismatch == bloom # header.bloom

GasMismatch == header.gasUsed # gasUsed

RootMismatch == trie.root # header.stateRoot

AnyMismatch == ReceiptMismatch \/ BloomMismatch \/ GasMismatch \/ RootMismatch

\* the message holds the fragment
Has(msg, fragment) == \E i \in 1..Len(msg) : msg[i] = fragment

FragmentsAsMismatches(msg) ==
    /\ Has(msg, "invalid receiptTrie ") <=> ReceiptMismatch
    /\ Has(msg, "invalid bloom ") <=> BloomMismatch
    /\ Has(msg, "invalid gasUsed ") <=> GasMismatch
    /\ Has(msg, "invalid block stateRoot ") <=> RootMismatch

\* C5 as stated: in validation mode result.error is set exactly when one of
\* the four checks mismatches, and its message holds the fragment of every
\* mismatching check and of no matching one.
C5_ErrorIffMismatch ==
    Validated =>
        /\ result.error.set <=> AnyMismatch
        /\ FragmentsAsMismatches(result.error.message)

\* C5 amended: in validation mode all four checks are evaluated; result.error
\* is set exactly when one of them mismatches or trie.commit reported an
\* error, it is commit's error itself when nothing mismatches, and its
\* message holds the fragment of every mismatching check and of no matching
\* one.
C5_ErrorIffMismatchOrCommitError ==
    Validated =>
        /\ result.error.set <=> (AnyMismatch \/ hist.commitErr.set)
        /\ ~AnyMismatch => result.error = hist.commitErr
        /\ FragmentsAsMismatches(result.error.message)

\* C5 witness: the receipt root and the state root mismatch, the bloom and
\* the gas used match, commit reported no error
C5_Witness ==
    /\ Validated
    /\ ReceiptMismatch /\ RootMismatch /\ ~BloomMismatch /\ ~GasMismatch
    /\ ~hist.commitErr.set
    /\ Len(receipts) > 0

\* C6: a commitment mismatch in validation mode comes after the commit and
\* the flush and reverts nothing: the checkpoint is committed, the cache
\* holds nothing unwritten, the trie keeps the block's mutations, and the
\* callback gets the validation error together with a result holding the
\* receipts and results of all the block's transactions.
C6_MismatchAfterCommit ==
    (Validated /\ AnyMismatch) =>
        /\ hist.revert = 0 /\ hist.commit = 1 /\ trie.checkpoints = <<>>
        /\ \A a \in Addr : ~(cache[a].present /\ cache[a].modified)
        /\ \A a \in Addr :
               trie.root[a] >= CheckpointRoot[a]
                   + (IF a = TxTarget THEN Len(block.transactions) ELSE 0)
                   + (IF a = block.header.coinbase
                      THEN MinerReward(common.minerReward, Len(block.uncleHeaders))
                      ELSE 0)
        /\ result.error.set
        /\ Len(result.receipts) = Len(block.transactions)
        /\ Len(result.results) = Len(block.transactions)
        /\ \A i \in 1..Len(result.receipts) : ~result.receipts[i].null
        /\ pc = "returned" =>
               /\ Len(cbLog) = 1
               /\ FirstCb.hasResult
               /\ FirstCb.err = result.error
               /\ FirstCb.result = result

\* C6 witness: a validating call of a block with two transactions has
\* returned with a state-root mismatch
C6_Witness ==
    /\ Validated /\ pc = "returned"
    /\ RootMismatch
    /\ Len(block.transactions) = 2

\* the transaction loop was aborted, at the transaction at position txIdx
Aborted == Called /\ FirstCb.err \in {GasLimitError, TxError}

\* receipts and results are those of the block's transactions, in its order
InBlockOrder ==
    /\ \A i \in 1..Len(receipts) :
           ~receipts[i].null => receipts[i].logs = <<block.transactions[i].id>>
    /\ \A i \in 1..Len(txResults) :
           ~txResults[i].failed => txResults[i].vm.logs = <<block.transactions[i].id>>

\* C7 as stated: when the loop aborts at position k, by rejection or by an
\* executor failure, receipts has k+1 entries of which only the last is null
\* and the results have k+1 entries.
C7_AbortLeavesNullReceipt ==
    Aborted =>
        /\ Len(receipts) = txIdx
        /\ \A i \in 1..Len(receipts) : receipts[i].null <=> i = txIdx
        /\ Len(txResults) = txIdx

\* C7 amended: when the executor fails on the transaction at position k,
\* receipts has k+1 entries of which only the last is null and the results
\* have k+1 entries; when that transaction is rejected at admission, both
\* have k entries and no receipt is null; both are in block order.
C7_AbortLeavesReceipts ==
    Aborted =>
        /\ FirstCb.err = TxError =>
               /\ Len(receipts) = txIdx
               /\ \A i \in 1..Len(receipts) : receipts[i].null <=> i = txIdx
               /\ Len(txResults) = txIdx
        /\ FirstCb.err = GasLimitError =>
               /\ Len(receipts) = txIdx - 1
               /\ \A i \in 1..Len(receipts) : ~receipts[i].null
               /\ Len(txResults) = txIdx - 1
        /\ InBlockOrder

\* C7 witness: the second transaction was rejected at admission
C7_Witness ==
    /\ Aborted
    /\ FirstCb.err = GasLimitError
    /\ txIdx = 2

\* C8: a block of N transactions none of which aborts returns N receipts,
\* none null, and N results, the i-th of each being the i-th transaction's,
\* and leaves a receipt trie of exactly N entries under the keys 0..N-1,
\* the i-th being the i-th receipt.
C8_ReceiptPerTransaction ==
    Delivered =>
        LET N == Len(block.transactions)
            rcs == FirstCb.result.receipts
            res == FirstCb.result.results
        IN /\ Len(rcs) = N /\ Len(res) = N
           /\ \A i \in 1..N :
                  /\ ~rcs[i].null
                  /\ rcs[i].logs = <<block.transactions[i].id>>
                  /\ ~res[i].failed
                  /\ res[i].vm.logs = <<block.transactions[i].id>>
                  /\ <<RlpEncodeInt(i - 1),
                       RlpEncodeList(<<rcs[i].status, rcs[i].gasUsed, rcs[i].bitvector,
                                       rcs[i].logs>>)>> \in receiptTrie
           /\ Cardinality(receiptTrie) = N
           /\ {p[1] : p \in receiptTrie} = {RlpEncodeInt(i) : i \in 0..(N - 1)}

\* C8 witness: a block of two transactions has returned its result
C8_Witness == Delivered /\ Len(block.transactions) = 2

RECURSIVE SumGas(_, _)
\* the gas used by the first n results
SumGas(res, n) == IF n = 0 THEN 0 ELSE SumGas(res, n - 1) + res[n].gasUsed

\* C9: the loop rejects the transaction it reaches exactly when the block's
\* gas limit is less than the transaction's gas limit plus the gas used by
\* the earlier ones; a rejection hands the gas-limit error to the callback,
\* without a result, invokes the executor neither then nor later, leaves the
\* cache as it was and the trie on the root of the checkpoint; an admitted
\* transaction goes to the executor.
C9_AdmissionCheck ==
    /\ [][txIdx' # txIdx =>
            LET tx == block.transactions[txIdx']
                rejected == Len(cbLog') > 0 /\ cbLog'[1].err = GasLimitError
            IN /\ rejected <=>
                      block.header.gasLimit < tx.gasLimit + SumGas(txResults', Len(txResults'))
               /\ rejected =>
                      /\ pc' = "returned"
                      /\ Len(cbLog') = 1 /\ ~cbLog'[1].hasResult
                      /\ hist'.runTx = hist.runTx
                      /\ \A i \in 1..Len(hist.runTx) : hist.runTx[i] < tx.id
                      /\ cache' = cache
                      /\ trie'.root = CheckpointRoot
               /\ ~rejected =>
                      /\ pc' = "runTx"
                      /\ hist'.runTx = Append(hist.runTx, tx.id)]_vars
    /\ [][(Called /\ FirstCb.err = GasLimitError) =>
              hist'.runTx = hist.runTx /\ trie' = trie /\ cache' = cache]_vars

\* C9 witness: the second transaction was rejected after the first had run
C9_Witness ==
    /\ pc = "returned"
    /\ Called /\ FirstCb.err = GasLimitError
    /\ txIdx = 2
    /\ hist.runTx = <<0>>

\* C10: the gas accumulator is zero until the first transaction has run,
\* never decreases, and is at most the block's gas limit whenever a
\* transaction is handed to the executor.
C10_GasAccumulator ==
    /\ [](Len(txResults) = 0 => gasUsed = 0)
    /\ [][/\ gasUsed' >= gasUsed
          /\ hist'.runTx # hist.runTx => gasUsed' <= block'.header.gasLimit]_vars

\* C10 witness: the second transaction is with the executor and the first
\* has used gas
C10_Witness ==
    /\ pc = "runTx"
    /\ Len(hist.runTx) = 2
    /\ gasUsed > 0

\* the reward of the product divided by 8, never negative
RewardOfProduct(minerReward, blockNumber, ommerNumber) ==
    LET product == (8 - (blockNumber - ommerNumber)) * minerReward
    IN IF product < 0 THEN 0 ELSE product \div 8

\* C11 as stated: the amount of every ommer credit is
\* max(0, (8 - (blockNumber - ommerNumber)) * minerReward / 8), the division
\* applied to the product.
C11_OmmerRewardOfProduct ==
    hist.rewards =>
        \A j \in DOMAIN credits \ {0} :
            credits[j].reward = RewardOfProduct(common.minerReward, block.header.number,
                                                block.uncleHeaders[j].number)

\* C12: a call that is given options but no block hands the invalid-input
\* error to the callback, once and without a result, and has touched nothing
\* by then: the trie's root is the one from before the call even when a root
\* override was given, no checkpoint is open, no hook has fired, the executor
\* was not invoked and the cache is empty.
C12_NoBlockNoMutation ==
    (pc # "idle" /\ opts.given /\ ~opts.hasBlock) =>
        /\ pc = "returned"
        /\ cbLog = <<[err |-> NoBlockError, hasResult |-> FALSE, result |-> NoResult]>>
        /\ trie.root = hist.rootBefore
        /\ trie.checkpoints = <<>>
        /\ hist.checkpoint = 0 /\ hist.commit = 0 /\ hist.revert = 0
        /\ hist.beforeBlock = 0 /\ hist.afterBlock = <<>>
        /\ hist.runTx = <<>>
        /\ cache = EmptyCache

\* C12 witness: a call without a block that carried a root override
C12_Witness ==
    /\ Called /\ FirstCb.err = NoBlockError
    /\ opts.hasRoot /\ opts.root # trie.root

\* C13: a call that is given a block fires the beforeBlock hook exactly
\* once, not before the checkpoint is open, and hands no transaction to the
\* executor before the hook completes; a call that does not end block-fatally
\* fires the afterBlock hook exactly once, after the commit, the flush and the
\* commitment checks, with the result object that holds their error, and
\* invokes the caller's callback only when that hook completes; a block-fatal
\* call never fires afterBlock.
C13_HooksAroundBlock ==
    /\ [](/\ hist.beforeBlock <= hist.checkpoint
          /\ (pc # "idle" /\ opts.hasBlock) => hist.beforeBlock = 1
          /\ pc = "beforeBlock" => hist.runTx = <<>> /\ txIdx = 0 /\ ~hist.rewards
          /\ Len(hist.afterBlock) <= 1
          /\ Len(hist.afterBlock) = 1 =>
                 /\ hist.commit = 1 /\ hist.revert = 0
                 /\ \A a \in Addr : ~(cache[a].present /\ cache[a].modified)
                 /\ hist.afterBlock[1] = result
                 /\ Validated =>
                        (result.error.set <=> (AnyMismatch \/ hist.commitErr.set))
          /\ pc = "afterBlock" => ~Called /\ Len(hist.afterBlock) = 1
          /\ (pc = "returned" /\ opts.hasBlock /\ ~BlockFatal) =>
                 /\ Len(hist.afterBlock) = 1
                 /\ cbLog = <<[err |-> result.error, hasResult |-> TRUE,
                               result |-> hist.afterBlock[1]]>>
          /\ BlockFatal => hist.afterBlock = <<>>)
    /\ [][/\ (hist.runTx = <<>> /\ hist'.runTx # <<>>) =>
                 pc = "beforeBlock" /\ hist.beforeBlock = 1
          /\ (txIdx = 0 /\ txIdx' # 0) => pc = "beforeBlock"
          /\ (Len(cbLog') > Len(cbLog) /\ cbLog'[Len(cbLog')].hasResult) =>
                 pc = "afterBlock"]_vars

\* C13 witness: a validating call of a block with two transactions has
\* returned a result with a validation error, after both hooks
C13_Witness ==
    /\ pc = "returned" /\ Delivered
    /\ FirstCb.err.set
    /\ hist.beforeBlock = 1 /\ Len(hist.afterBlock) = 1
    /\ Len(hist.runTx) = 2

\* C14 as stated: a validating call found the block valid; a second
\* validating call of the same block, on a fresh copy of the same starting
\* state and with the same executor results, that comes to deliver a result
\* delivers no error and leaves the same root, whatever the order of the
\* state store's callbacks in either call.
C14_SameOutcomeTwice ==
    (hist.first.done /\ hist.first.delivered /\ Delivered /\ ~hist.commitErr.set) =>
        /\ result.error = hist.first.error
        /\ result.error = NoErr
        /\ trie.root = hist.first.root

\* a transaction has failed in the executor
TxFailed == \E i \in 1..Len(txResults) : txResults[i].failed

\* C15: the executor is given the transactions in block order, each at most
\* once and one at a time: while it runs a transaction, the results of all
\* earlier ones are accumulated and their receipts are in the receipt trie;
\* it is given the next only in the step in which the receipt of the one
\* before has been inserted; and after a transaction has failed it is given
\* no other.
C15_OneAtATimeInOrder ==
    /\ [](/\ Len(hist.runTx) <= Len(block.transactions)
          /\ \A i \in 1..Len(hist.runTx) : hist.runTx[i] = block.transactions[i].id
          /\ \A i, j \in 1..Len(hist.runTx) : i # j => hist.runTx[i] # hist.runTx[j]
          /\ Len(hist.runTx) - Len(txResults) = (IF pc = "runTx" THEN 1 ELSE 0)
          /\ pc = "runTx" =>
                 /\ txIdx = Len(hist.runTx)
                 /\ validReceiptCount = txIdx - 1
                 /\ Cardinality(receiptTrie) = txIdx - 1
                 /\ gasUsed = SumGas(txResults, txIdx - 1)
                 /\ ~TxFailed)
    /\ [][/\ hist'.runTx # hist.runTx =>
                 /\ hist'.runTx = Append(hist.runTx, block.transactions[Len(hist.runTx) + 1].id)
                 /\ pc = (IF hist.runTx = <<>> THEN "beforeBlock" ELSE "receiptPut")
                 /\ Cardinality(receiptTrie') = Len(hist.runTx)
                 /\ Len(txResults') = Len(hist.runTx)
          /\ TxFailed => hist'.runTx = hist.runTx]_vars

\* C15 witness: the second transaction is with the executor, the first one's
\* receipt is in the receipt trie
C15_Witness ==
    /\ pc = "runTx"
    /\ hist.runTx = <<0, 1>>
    /\ Cardinality(receiptTrie) = 1
    /\ Len(txResults) = 1

\* the credits of the ommers
OmmerCredits == DOMAIN credits \ {0}

\* C16: the reward stage starts only when every transaction of the block has
\* succeeded, and until it starts no credit reads or writes an account; the
\* miner's credit starts only when every ommer's credit has written its
\* account; and when an ommer's credit has failed the miner's credit stays
\* unattempted.
C16_RewardsAfterTransactions ==
    /\ hist.rewards =>
           /\ Len(txResults) = Len(block.transactions)
           /\ validReceiptCount = Len(block.transactions)
           /\ ~TxFailed
           /\ \A i \in 1..Len(receipts) : ~receipts[i].null
           /\ DOMAIN credits = 0..Len(block.uncleHeaders)
    /\ ~hist.rewards =>
           /\ \A j \in DOMAIN credits : credits[j].st = "idle"
           /\ \A a \in Addr : ~cache[a].modified
    /\ credits[0].st # "idle" => \A j \in OmmerCredits : credits[j].st = "done"
    /\ credits[0].st = "get" =>
           \A j \in OmmerCredits :
               /\ cache[credits[j].address].modified
               /\ cache[credits[j].address].val >= credits[j].reward
    /\ (\E j \in OmmerCredits : credits[j].st = "failed") => credits[0].st = "idle"

\* C16 witness: the miner's credit reads its account after two ommers'
\* credits have written theirs, in a block of two transactions
C16_Witness ==
    /\ credits[0].st = "get"
    /\ Len(block.uncleHeaders) = 2
    /\ Len(block.transactions) = 2

\* the bitwise OR of the blooms of the first n results
AggregateBloom(res, n) == UNION {res[i].bloom : i \in 1..n}

\* the receipt of transaction i as the receipt trie holds it, with bloom b
ReceiptEntry(i, b) ==
    <<RlpEncodeInt(i - 1),
      RlpEncodeList(<<receipts[i].status, receipts[i].gasUsed, b, receipts[i].logs>>)>>

\* C17 as stated: the bloom of the receipt of every executed transaction i,
\* returned and in the receipt trie, is the OR of the blooms the executor
\* returned for the transactions 0..i.
C17_ReceiptBloomAggregate ==
    \A i \in 1..Len(receipts) :
        ~receipts[i].null =>
            /\ receipts[i].bitvector = AggregateBloom(txResults, i)
            /\ i <= validReceiptCount =>
                   ReceiptEntry(i, AggregateBloom(txResults, i)) \in receiptTrie

\* C17 amended: the bloom of the receipt of every executed transaction i,
\* returned and in the receipt trie, is the bloom the executor returned for
\* transaction i alone; the OR of the blooms of the transactions 0..i is
\* what the aggregate bloom holds.
C17_ReceiptBloomOfTransaction ==
    /\ \A i \in 1..Len(receipts) :
           ~receipts[i].null =>
               /\ receipts[i].bitvector = txResults[i].bloom
               /\ i <= validReceiptCount =>
                      ReceiptEntry(i, txResults[i].bloom) \in receiptTrie
    /\ bloom = AggregateBloom(txResults, Len(txResults))

\* C17 witness: the receipts of two transactions are in the receipt trie, the
\* first transaction's bloom has a bit that the second one's has not
C17_Witness ==
    /\ validReceiptCount = 2
    /\ txResults[1].bloom = {1} /\ txResults[2].bloom = {}
    /\ receipts[2].bitvector = {}
    /\ bloom = {1}

\* C18: the receipt of every executed transaction, returned and in the
\* receipt trie, has status 0 when the executor's outcome reports that an
\* exception occurred and status 1 when it reports none.
C18_StatusInvertsException ==
    \A i \in 1..Len(receipts) :
        ~receipts[i].null =>
            LET status == IF ExceptionOccurred(txResults[i]) THEN 0 ELSE 1
            IN /\ receipts[i].status = status
               /\ i <= validReceiptCount =>
                      <<RlpEncodeInt(i - 1),
                        RlpEncodeList(<<status, receipts[i].gasUsed, receipts[i].bitvector,
                                        receipts[i].logs>>)>> \in receiptTrie

\* C18 witness: the receipts of two transactions are in the receipt trie, the
\* first ended with an exception and the second without
C18_Witness ==
    /\ validReceiptCount = 2
    /\ ExceptionOccurred(txResults[1]) /\ ~ExceptionOccurred(txResults[2])
    /\ receipts[1].status = 0 /\ receipts[2].status = 1

\* the most the block of this call can add to address a
BlockCredits(a) ==
    (IF a = TxTarget THEN Len(block.transactions) ELSE 0)
    + SumOmmerRewards(a, block.uncleHeaders, Len(block.uncleHeaders))
    + (IF a = block.header.coinbase
       THEN MinerReward(common.minerReward, Len(block.uncleHeaders))
       ELSE 0)

\* C19 as stated: after a call that failed in the reward stage, getAccount
\* delivers for every address the balance from before the call; and the state
\* that a later successful call on the same store commits holds no credit of
\* the failed block, so no address has more than its balance from before the
\* failed call plus what the later block adds.
C19_FailedBlockInvisible ==
    /\ (~hist.first.done /\ BlockFatal /\ hist.rewards /\ Settled) =>
           View(cache, trie) = hist.rootBefore
    /\ (hist.first.done /\ ~hist.first.delivered /\ Delivered) =>
           \A a \in Addr : trie.root[a] <= hist.first.view[a] + BlockCredits(a)

\* C20 as stated: once the checkpoint is reverted and the caller's callback
\* has the error, the call issues no putAccount any more and no account is
\* written: a credit that was pending then writes nothing afterwards.
C20_NoWriteAfterRevert ==
    [][(hist.revert = 1 /\ Called) =>
           /\ \A j \in DOMAIN credits : credits'[j].st = "put" => credits[j].st = "put"
           /\ \A a \in Addr : cache'[a].modified => cache'[a] = cache[a]]_vars

====
